---- MODULE Spec2Model ----
(***************************************************************************)
(* A model of the microkernel's task subsystem: the round-robin scheduler  *)
(* (task.rs), the mailboxes with send/receive (task.rs), the counting      *)
(* semaphore (sync.rs), the timer interrupt handler (interrupts.rs) and    *)
(* the boot sequence of kernel_main with the ping and pong tasks (main.rs).*)
(*                                                                         *)
(* One CPU.  A thread of control is kernel_main or the code of one task.   *)
(* Exactly one thread executes at a time (cpu); the timer handler runs     *)
(* with interrupts disabled (an x86-interrupt gate) and is one atomic      *)
(* step; a tick may arrive between any two steps of the running thread     *)
(* once kernel_main has enabled interrupts.  Every spin lock is a variable *)
(* naming its holder, so that a tick inside a critical section is seen.    *)
(***************************************************************************)
EXTENDS Integers, Sequences, FiniteSets, TLC

\* ------------------------------------------------------------------ bounds
\* Calls each task may start in the free workload.
MaxOps == 2
\* Iterations of down / critical section / up of each task in the semaphore workload.
MaxIter == 2
\* Largest task count of the scheduler-selection specification.
MaxTasks == 3
\* Cap on the semaphore's waiter queue, which the code lets grow without bound.
MaxQueue == 3
\* Calls of allocate_frame in the frame-allocator specification.
MaxAlloc == 5
\* Regions of a memory map, and 4 KiB frames of a region, in that specification.
MaxRegions == 2
MaxRegionFrames == 2

\* ------------------------------------------------------- program constants
\* kernel_main adds exactly two tasks: ping (TaskId 0) and pong (TaskId 1).
NumTasks == 2
\* SCREEN_SEMAPHORE is created with the value 1.
SemInitial == 1
\* The message ping sends to pong.
PingMsg == 42
\* allocator.rs: the heap window is HEAP_SIZE bytes from HEAP_START; pages and
\* frames are 4 KiB.  Heap pages are named by their index in the window.
HEAP_SIZE == 102400
PAGE_SIZE == 4096
\* The thread of control of kernel_main (task threads are named by TaskId).
KernelThread == -1
\* "No thread": the holder of a free spin lock; also an unset local.
NoThread == -2

TaskIds == 0 .. (NumTasks - 1)
Threads == TaskIds \cup {KernelThread}
LockNames == {"sched", "mbox", "waiters", "registry", "writer"}

VARIABLES
    mem,            \* boot memory: the firmware map, the frame allocator, the heap
    tasks,          \* Scheduler.tasks: sequence of [id, state, context]
    current,        \* Scheduler.current_task (0-based index)
    mailboxes,      \* MAILBOXES: TaskId -> sequence of messages
    registry,       \* TASK_REGISTRY: set of <<name, TaskId>>
    counter,        \* Semaphore.counter
    waiting_tasks,  \* Semaphore.waiting_tasks
    locks,          \* holder of each spin lock, or NoThread
    ints,           \* interrupts enabled (kernel_main's enable())
    cpu,            \* the thread of control executing
    halted,         \* "run", "panic", "hung" (handler spins on a held lock), "crash"
    pc,             \* position of every thread
    loc,            \* locals of every task thread
    script,         \* the calls each task's entry function makes, in order
    knext,          \* kernel_main's next_task_context (a slot index)
    hist,           \* history: counts and logs the properties speak about
    sret            \* the last schedule() call: arguments and result

vars == <<mem, tasks, current, mailboxes, registry, counter, waiting_tasks, locks,
          ints, cpu, halted, pc, loc, script, knext, hist, sret>>

kernelState == <<mem, tasks, current, mailboxes, registry, counter, waiting_tasks, script>>

\* ------------------------------------------------------------- Task::new
\* A fresh task: Ready, its context is its own entry point on its own stack.
\* A context is named by the thread whose registers it holds.
NewTask(id) == [id |-> id, state |-> "Ready", context |-> id]

\* Index (0-based) of the first task with this id, or -1: iter().find(|t| t.id == id).
RECURSIVE FindFrom(_, _, _)
FindFrom(ts, id, i) ==
    IF i >= Len(ts) THEN 0 - 1
    ELSE IF ts[i + 1].id = id THEN i
    ELSE FindFrom(ts, id, i + 1)

Find(ts, id) == FindFrom(ts, id, 0)

\* tasks with the state of the task of this id set (nothing if there is none).
SetState(ts, id, st) ==
    LET i == Find(ts, id) IN
    IF i < 0 THEN ts ELSE [ts EXCEPT ![i + 1].state = st]

\* send's wake-up: Blocked becomes Ready, any other state is left alone.
WakeIfBlocked(ts, id) ==
    LET i == Find(ts, id) IN
    IF i >= 0 /\ ts[i + 1].state = "Blocked"
    THEN [ts EXCEPT ![i + 1].state = "Ready"]
    ELSE ts

\* Scheduler::current_task_id
current_task_id == tasks[current + 1].id

\* ------------------------------------------------------ Scheduler::schedule
\* The scan of schedule(): next is examined; if it is not Ready the scan
\* advances and gives up when it reaches cur.  -1 stands for None.
RECURSIVE Scan(_, _, _)
Scan(ts, cur, next) ==
    IF ts[next + 1].state = "Ready" THEN next
    ELSE LET n2 == (next + 1) % Len(ts) IN
         IF n2 = cur THEN 0 - 1 ELSE Scan(ts, cur, n2)

\* Mutant of schedule: the outgoing task is left Running.
schedule_NoDemote(ts, cur) ==
    LET j == Scan(ts, cur, (cur + 1) % Len(ts)) IN
    IF j < 0 THEN
        [kind |-> "none", tasks |-> ts, current |-> cur, save |-> cur, load |-> cur]
    ELSE
        [kind |-> "some",
         tasks |-> [ts EXCEPT ![j + 1].state = "Running"],
         current |-> j, save |-> cur, load |-> j]

\* Mutant of schedule: self.current_task is not updated.
schedule_KeepCurrent(ts, cur) ==
    LET j == Scan(ts, cur, (cur + 1) % Len(ts)) IN
    IF j < 0 THEN
        [kind |-> "none", tasks |-> ts, current |-> cur, save |-> cur, load |-> cur]
    ELSE
        [kind |-> "some",
         tasks |-> [i \in 1 .. Len(ts) |->
                      IF i = j + 1 THEN [ts[i] EXCEPT !.state = "Running"]
                      ELSE IF i = cur + 1 /\ ts[i].state = "Running"
                           THEN [ts[i] EXCEPT !.state = "Ready"]
                      ELSE ts[i]],
         current |-> cur, save |-> cur, load |-> j]

\* Mutant of schedule: the outgoing task becomes Ready whatever its state was.
schedule_DemoteAlways(ts, cur) ==
    LET j == Scan(ts, cur, (cur + 1) % Len(ts)) IN
    IF j < 0 THEN
        [kind |-> "none", tasks |-> ts, current |-> cur, save |-> cur, load |-> cur]
    ELSE
        [kind |-> "some",
         tasks |-> [i \in 1 .. Len(ts) |->
                      IF i = j + 1 THEN [ts[i] EXCEPT !.state = "Running"]
                      ELSE IF i = cur + 1 THEN [ts[i] EXCEPT !.state = "Ready"]
                      ELSE ts[i]],
         current |-> j, save |-> cur, load |-> j]

\* Mutant of schedule: self.current_task is advanced before the scan, so a
\* scan that finds nothing leaves it changed.
schedule_NoneAdvances(ts, cur) ==
    LET j == Scan(ts, cur, (cur + 1) % Len(ts)) IN
    IF j < 0 THEN
        [kind |-> "none", tasks |-> ts, current |-> (cur + 1) % Len(ts),
         save |-> cur, load |-> cur]
    ELSE IF j = cur THEN
        [kind |-> "panic", tasks |-> ts, current |-> j, save |-> cur, load |-> j]
    ELSE
        [kind |-> "some",
         tasks |-> [i \in 1 .. Len(ts) |->
                      IF i = j + 1 THEN [ts[i] EXCEPT !.state = "Running"]
                      ELSE IF i = cur + 1 /\ ts[i].state = "Running"
                           THEN [ts[i] EXCEPT !.state = "Ready"]
                      ELSE ts[i]],
         current |-> j, save |-> cur, load |-> j]

\* schedule(): the result kind ("none", "some", or "panic" when split_at_mut
\* is asked for first[0] of an empty slice, which needs next = cur), the new
\* task vector and current index, and the slots of the two contexts returned.
schedule(ts, cur) ==
    LET j == Scan(ts, cur, (cur + 1) % Len(ts)) IN
    IF j < 0 THEN
        [kind |-> "none", tasks |-> ts, current |-> cur, save |-> cur, load |-> cur]
    ELSE IF j = cur THEN
        [kind |-> "panic", tasks |-> ts, current |-> j, save |-> cur, load |-> j]
    ELSE
        [kind |-> "some",
         tasks |-> [i \in 1 .. Len(ts) |->
                      IF i = j + 1 THEN [ts[i] EXCEPT !.state = "Running"]
                      ELSE IF i = cur + 1 /\ ts[i].state = "Running"
                           THEN [ts[i] EXCEPT !.state = "Ready"]
                      ELSE ts[i]],
         current |-> j, save |-> cur, load |-> j]

\* ----------------------------------------------------------------- memory
\* Mutant of HeapPages: the page range excludes its last page.
HeapPages_exclusive == (HEAP_SIZE - 1) \div PAGE_SIZE

\* Page::range_inclusive(containing(HEAP_START), containing(HEAP_START + HEAP_SIZE - 1)):
\* HEAP_START is page aligned, so the window has this many pages.
HeapPages == ((HEAP_SIZE - 1) \div PAGE_SIZE) + 1

\* The boot information handed to kernel_main: the firmware memory map and
\* the number of page tables map_to has to create for the first heap page
\* (the boot shim has not mapped the heap's range).
Region(a, b, u) == [start |-> a, end |-> b, usable |-> u]

BootInfos ==
    { [memory_map |-> <<Region(0, 4096, FALSE), Region(4096, 53248, TRUE),
                        Region(53248, 65536, FALSE), Region(65536, 139264, TRUE)>>,
       missing_tables |-> 3],
      [memory_map |-> <<Region(0, 4096, FALSE), Region(4096, 53248, TRUE),
                        Region(65536, 98304, TRUE)>>,
       missing_tables |-> 3],
      [memory_map |-> <<Region(4096, 12288, TRUE)>>, missing_tables |-> 3] }

\* r.range.start_addr()..r.range.end_addr() stepped by 4096, each address
\* turned into the frame containing it.
RegionFrames(r) ==
    IF r.end <= r.start THEN << >>
    ELSE [k \in 1 .. (((r.end - r.start - 1) \div PAGE_SIZE) + 1) |->
            LET addr == r.start + (k - 1) * PAGE_SIZE IN addr - (addr % PAGE_SIZE)]

\* BootInfoFrameAllocator::usable_frames: the frames of the usable regions,
\* concatenated in map order.
RECURSIVE usable_frames(_)
usable_frames(map) ==
    IF map = << >> THEN << >>
    ELSE (IF Head(map).usable THEN RegionFrames(Head(map)) ELSE << >>)
         \o usable_frames(Tail(map))

\* Mutant of allocate_frame: next is not used, the first frame is returned.
allocate_frame_first(map, next) ==
    LET fs == usable_frames(map) IN
    IF 0 < Len(fs) THEN fs[1] ELSE 0 - 1

\* allocate_frame: usable_frames().nth(next), -1 for None; the caller adds 1
\* to next either way.
allocate_frame(map, next) ==
    LET fs == usable_frames(map) IN
    IF next < Len(fs) THEN fs[next + 1] ELSE 0 - 1

\* ---------------------------------------------------------------- helpers
Free(l) == locks[l] = NoThread
Acquire(l, t) == [locks EXCEPT ![l] = t]
Release(l) == [locks EXCEPT ![l] = NoThread]
Goto(t, p) == [pc EXCEPT ![t] = p]

NoLocals == [my_id |-> NoThread, value |-> 0, to |-> NoThread, msg |-> 0,
             task_id |-> NoThread, name |-> "", peer |-> NoThread, got |-> 0,
             ip |-> 1]

\* The running thread is t and the machine has not stopped.
Runs(t) == cpu = t /\ halted = "run"

\* ------------------------------------------------------------------- Init
\* The state kernel_main starts from; the tasks run the given entry functions.
Boots(entries) ==
    /\ script = entries
    /\ \E b \in BootInfos :
         mem = [memory_map |-> b.memory_map, missing_tables |-> b.missing_tables,
                next |-> 0, pages |-> << >>, tables |-> << >>, heap |-> FALSE]
    /\ tasks = << >>
    /\ current = 0
    /\ mailboxes = << >>
    /\ registry = {}
    /\ counter = SemInitial
    /\ waiting_tasks = << >>
    /\ locks = [l \in LockNames |-> NoThread]
    /\ ints = FALSE
    /\ cpu = KernelThread
    /\ halted = "run"
    /\ pc = [t \in Threads |-> IF t = KernelThread THEN "k_heap" ELSE "idle"]
    /\ loc = [t \in TaskIds |-> NoLocals]
    /\ knext = 0 - 1
    /\ hist = [ups |-> 0, downs |-> 0,
               recv |-> [t \in TaskIds |-> << >>],
               nsent |-> [t \in TaskIds |-> 0],
               nfalse |-> [t \in TaskIds |-> 0],
               rt |-> [t \in TaskIds |-> 0],
               calls |-> [t \in TaskIds |-> 0],
               console |-> << >>,
               since |-> << >>]
    /\ sret = [kind |-> "init"]

\* The free workload: the tasks' calls are chosen as they run.
Init == Boots([t \in TaskIds |-> << >>])

\* ---------------------------------------------------- history of waiting
\* hist.since[i] is the number of schedule() calls task i has stayed Ready
\* through without being selected, counted up to the number of tasks.
\* After a call of schedule() that turned pre into post:
AfterSchedule(since, pre, post) ==
    [i \in 1 .. Len(post) |->
        IF pre[i].state = "Ready" /\ post[i].state = "Ready"
        THEN (IF since[i] < Len(post) THEN since[i] + 1 ELSE since[i])
        ELSE 0]

\* After a wake-up that turned pre into post: a task that became Ready
\* starts waiting afresh.
AfterWake(since, pre, post) ==
    [i \in 1 .. Len(post) |->
        IF pre[i].state # "Ready" /\ post[i].state = "Ready" THEN 0 ELSE since[i]]

\* ------------------------------------------------ timer_interrupt_handler
\* The handler from SCHEDULER.lock() to context_switch, interrupts disabled.
\* If the interrupted thread holds the scheduler lock the handler spins on
\* it forever.  context_switch(save, load) stores the running thread's
\* registers in the context of slot save and resumes the thread whose
\* registers the context of slot load holds.
timer_interrupt_handler ==
    IF ~Free("sched") THEN
        /\ halted' = "hung"
        /\ UNCHANGED <<tasks, current, cpu, hist>>
    ELSE
        LET r == schedule(tasks, current) IN
        /\ hist' = [hist EXCEPT !.since = AfterSchedule(@, tasks, r.tasks)]
        /\ IF r.kind = "some" THEN
               /\ current' = r.current
               /\ tasks' = [r.tasks EXCEPT ![r.save + 1].context = cpu]
               /\ cpu' = r.tasks[r.load + 1].context
               /\ halted' = halted
           ELSE
               /\ halted' = (IF r.kind = "panic" THEN "crash" ELSE halted)
               /\ tasks' = r.tasks
               /\ current' = r.current
               /\ cpu' = cpu

\* A hardware timer tick: possible between any two steps once interrupts are on.
Tick ==
    /\ ints
    /\ halted = "run"
    /\ timer_interrupt_handler
    /\ UNCHANGED <<mem, script, mailboxes, registry, counter, waiting_tasks, locks, ints,
                   pc, loc, knext, sret>>

\* ------------------------------------------------------------ kernel_main
\* init_heap, one iteration of "for page in page_range": allocate_frame() for
\* the page, then map_to, which takes the frames of the page tables it has
\* to create from the same allocator.  A None from the allocator is
\* Err(FrameAllocationFailed), and kernel_main's expect() panics.
\* Mutant of FrameAllocationFailed: a None from allocate_frame goes unnoticed.
FrameAllocationIgnored(frame) == FALSE

\* .ok_or(MapToError::FrameAllocationFailed)? returns the error
FrameAllocationFailed(frame) == frame < 0

KMapHeapPage ==
    /\ Runs(KernelThread) /\ pc[KernelThread] = "k_heap"
    /\ Len(mem.pages) < HeapPages
    /\ LET frame == allocate_frame(mem.memory_map, mem.next)
           need == IF mem.pages = << >> THEN mem.missing_tables ELSE 0
           tabs == [k \in 1 .. need |-> allocate_frame(mem.memory_map, mem.next + k)]
           failed == {k \in 1 .. need : tabs[k] < 0}
       IN
       IF FrameAllocationFailed(frame) THEN
           /\ mem' = [mem EXCEPT !.next = @ + 1]
           /\ halted' = "panic"
       ELSE IF failed # {} THEN
           /\ mem' = [mem EXCEPT !.next = @ + 1 + (CHOOSE k \in failed : \A x \in failed : k <= x),
                                 !.tables = SubSeq(tabs, 1, (CHOOSE k \in failed : \A x \in failed : k <= x) - 1)]
           /\ halted' = "panic"
       ELSE
           /\ mem' = [mem EXCEPT !.next = @ + 1 + need,
                                 !.pages = Append(@, frame),
                                 !.tables = @ \o tabs]
           /\ halted' = halted
    /\ UNCHANGED <<tasks, current, mailboxes, registry, counter, waiting_tasks,
                   script, locks, ints, cpu, pc, loc, knext, hist, sret>>

\* init_heap after the loop: ALLOCATOR.lock().init(HEAP_START, HEAP_SIZE); Ok(())
KInitAllocator ==
    /\ Runs(KernelThread) /\ pc[KernelThread] = "k_heap"
    /\ Len(mem.pages) = HeapPages
    /\ mem' = [mem EXCEPT !.heap = TRUE]
    /\ pc' = Goto(KernelThread, "k_lock")
    /\ UNCHANGED <<tasks, current, mailboxes, registry, counter, waiting_tasks,
                   script, locks, ints, cpu, halted, loc, knext, hist, sret>>

\* let mut scheduler = SCHEDULER.lock();
KLockScheduler ==
    /\ Runs(KernelThread) /\ pc[KernelThread] = "k_lock"
    /\ Free("sched")
    /\ locks' = Acquire("sched", KernelThread)
    /\ pc' = Goto(KernelThread, "k_add")
    /\ UNCHANGED <<kernelState, ints, cpu, halted, loc, knext, hist, sret>>

\* Scheduler::add_task, first half: tasks.push(task); MAILBOXES.lock()
KAddTask ==
    /\ Runs(KernelThread) /\ pc[KernelThread] = "k_add"
    /\ Len(tasks) < NumTasks
    /\ Free("mbox")
    /\ tasks' = Append(tasks, NewTask(Len(tasks)))
    /\ hist' = [hist EXCEPT !.since = Append(@, 0)]
    /\ locks' = Acquire("mbox", KernelThread)
    /\ pc' = Goto(KernelThread, "k_insert")
    /\ UNCHANGED <<mem, script, current, mailboxes, registry, counter, waiting_tasks, ints,
                   cpu, halted, loc, knext, sret>>

\* Scheduler::add_task, second half: .insert(task_id, VecDeque::new()); unlock
KInsertMailbox ==
    /\ Runs(KernelThread) /\ pc[KernelThread] = "k_insert"
    /\ mailboxes' = (tasks[Len(tasks)].id :> << >>) @@ mailboxes
    /\ locks' = Release("mbox")
    /\ pc' = Goto(KernelThread, IF Len(tasks) < NumTasks THEN "k_add" ELSE "k_reg")
    /\ UNCHANGED <<mem, script, tasks, current, registry, counter, waiting_tasks, ints,
                   cpu, halted, loc, knext, hist, sret>>

\* let mut registry = TASK_REGISTRY.lock(); the two inserts.  The guard is a
\* local of kernel_main, which never returns: the lock is never released.
KRegister ==
    /\ Runs(KernelThread) /\ pc[KernelThread] = "k_reg"
    /\ Free("registry")
    /\ locks' = Acquire("registry", KernelThread)
    /\ registry' = {<<"ping", 0>>, <<"pong", 1>>}
    /\ pc' = Goto(KernelThread, "k_sched")
    /\ UNCHANGED <<mem, script, tasks, current, mailboxes, counter, waiting_tasks, ints,
                   cpu, halted, loc, knext, hist, sret>>

\* scheduler.schedule().unwrap(): only the next context pointer is kept.
KSchedule ==
    /\ Runs(KernelThread) /\ pc[KernelThread] = "k_sched"
    /\ LET r == schedule(tasks, current) IN
        /\ tasks' = r.tasks
        /\ current' = r.current
        /\ knext' = r.load
        /\ halted' = (IF r.kind = "some" THEN halted ELSE "crash")
        /\ hist' = [hist EXCEPT !.since = AfterSchedule(@, tasks, r.tasks)]
    /\ pc' = Goto(KernelThread, "k_drop")
    /\ UNCHANGED <<mem, script, mailboxes, registry, counter, waiting_tasks, locks, ints,
                   cpu, loc, sret>>

\* drop(scheduler)
KDropScheduler ==
    /\ Runs(KernelThread) /\ pc[KernelThread] = "k_drop"
    /\ locks' = Release("sched")
    /\ pc' = Goto(KernelThread, "k_enable")
    /\ UNCHANGED <<kernelState, ints, cpu, halted, loc, knext, hist, sret>>

\* init_idt(); PICS.lock().initialize(); interrupts::enable()
KEnable ==
    /\ Runs(KernelThread) /\ pc[KernelThread] = "k_enable"
    /\ ints' = TRUE
    /\ pc' = Goto(KernelThread, "k_switch")
    /\ UNCHANGED <<kernelState, locks, cpu, halted, loc, knext, hist, sret>>

\* context_switch(&mut current_task_context, next_task_context): the kernel's
\* registers go to a local that is never loaded again.  If a tick in the
\* window after enable() stored kernel_main's own registers in the slot
\* next_task_context points to, the load resumes a handler frame that is no
\* longer on the stack: the machine is lost.
KSwitch ==
    /\ Runs(KernelThread) /\ pc[KernelThread] = "k_switch"
    /\ IF tasks[knext + 1].context = KernelThread
       THEN halted' = "crash" /\ cpu' = cpu
       ELSE halted' = halted /\ cpu' = tasks[knext + 1].context
    /\ pc' = Goto(KernelThread, "k_done")
    /\ UNCHANGED <<kernelState, locks, ints, loc, knext, hist, sret>>

Boot ==
    \/ KMapHeapPage
    \/ KInitAllocator
    \/ KLockScheduler
    \/ KAddTask
    \/ KInsertMailbox
    \/ KRegister
    \/ KSchedule
    \/ KDropScheduler
    \/ KEnable
    \/ KSwitch

\* ------------------------------------------------------------------- send
\* A task's call returns: back to its own code.
Return(t) == [pc EXCEPT ![t] = "idle"]

\* let mut mailboxes = MAILBOXES.lock();
SendLockMailboxes(t) ==
    /\ Runs(t) /\ pc[t] = "s_lock"
    /\ Free("mbox")
    /\ locks' = Acquire("mbox", t)
    /\ pc' = Goto(t, "s_get")
    /\ UNCHANGED <<kernelState, ints, cpu, halted, loc, knext, hist, sret>>

\* Mutant of push_back: the message is put at the head.
push_front(q, m) == <<m>> \o q

\* mailboxes.get_mut(&receiver_id): Some -> push_back(message); None -> false
push_back(q, m) == Append(q, m)

\* Mutant of get_mut: every TaskId is taken to have a mailbox.
get_mut_any(boxes, id) == TRUE

\* mailboxes.get_mut(&receiver_id) is Some
get_mut(boxes, id) == id \in DOMAIN boxes

SendPush(t) ==
    /\ Runs(t) /\ pc[t] = "s_get"
    /\ IF get_mut(mailboxes, loc[t].to) THEN
           /\ mailboxes' = [mailboxes EXCEPT ![loc[t].to] = push_back(@, loc[t].msg)]
           /\ hist' = [hist EXCEPT !.nsent[t] = @ + 1,
                                   !.rt = [r \in TaskIds |-> IF r = loc[t].to THEN 0 ELSE @[r]]]
           /\ pc' = Goto(t, "s_slock")
           /\ UNCHANGED <<locks, loc>>
       ELSE
           /\ locks' = Release("mbox")
           /\ pc' = Return(t)
           /\ loc' = [loc EXCEPT ![t].to = NoThread, ![t].msg = 0]
           /\ hist' = [hist EXCEPT !.nfalse[t] = @ + 1]
           /\ UNCHANGED mailboxes
    /\ UNCHANGED <<mem, script, tasks, current, registry, counter, waiting_tasks, ints, cpu,
                   halted, knext, sret>>

\* let mut scheduler = crate::SCHEDULER.lock();
SendLockScheduler(t) ==
    /\ Runs(t) /\ pc[t] = "s_slock"
    /\ Free("sched")
    /\ locks' = Acquire("sched", t)
    /\ pc' = Goto(t, "s_wake")
    /\ UNCHANGED <<kernelState, ints, cpu, halted, loc, knext, hist, sret>>

\* if task.state == Blocked { task.state = Ready }
SendWake(t) ==
    /\ Runs(t) /\ pc[t] = "s_wake"
    /\ tasks' = WakeIfBlocked(tasks, loc[t].to)
    /\ hist' = [hist EXCEPT !.since = AfterWake(@, tasks, tasks')]
    /\ pc' = Goto(t, "s_sdrop")
    /\ UNCHANGED <<mem, script, current, mailboxes, registry, counter, waiting_tasks, locks,
                   ints, cpu, halted, loc, knext, sret>>

\* end of the if-let body: the scheduler guard is dropped
SendDropScheduler(t) ==
    /\ Runs(t) /\ pc[t] = "s_sdrop"
    /\ locks' = Release("sched")
    /\ pc' = Goto(t, "s_drop")
    /\ UNCHANGED <<kernelState, ints, cpu, halted, loc, knext, hist, sret>>

\* return true: the mailbox guard is dropped
SendReturn(t) ==
    /\ Runs(t) /\ pc[t] = "s_drop"
    /\ locks' = Release("mbox")
    /\ pc' = Return(t)
    /\ loc' = [loc EXCEPT ![t].to = NoThread, ![t].msg = 0]
    /\ UNCHANGED <<kernelState, ints, cpu, halted, knext, hist, sret>>

Send(t) ==
    \/ SendLockMailboxes(t)
    \/ SendPush(t)
    \/ SendLockScheduler(t)
    \/ SendWake(t)
    \/ SendDropScheduler(t)
    \/ SendReturn(t)

\* ---------------------------------------------------------------- receive
\* History of round trips: hist.rt[t] is m when task t began a receive()
\* with its mailbox holding exactly the message m of a send that had
\* returned, and no send has pushed to t since; otherwise 0.
SendingTo(r) ==
    {s \in TaskIds : pc[s] \in {"s_lock", "s_get", "s_slock", "s_wake", "s_sdrop", "s_drop"}
                      /\ loc[s].to = r}

RoundTripOf(t) ==
    IF t \in DOMAIN mailboxes /\ Len(mailboxes[t]) = 1 /\ SendingTo(t) = {}
    THEN mailboxes[t][1] ELSE 0

\* crate::SCHEDULER.lock() of the first statement
RecvLockId(t) ==
    /\ Runs(t) /\ pc[t] = "r_lock"
    /\ Free("sched")
    /\ locks' = Acquire("sched", t)
    /\ pc' = Goto(t, "r_id")
    /\ hist' = [hist EXCEPT !.rt[t] = RoundTripOf(t)]
    /\ UNCHANGED <<kernelState, ints, cpu, halted, loc, knext, sret>>

\* let my_id = ... .current_task_id(); the guard is dropped with the statement
RecvId(t) ==
    /\ Runs(t) /\ pc[t] = "r_id"
    /\ loc' = [loc EXCEPT ![t].my_id = current_task_id]
    /\ locks' = Release("sched")
    /\ pc' = Goto(t, "r_mlock")
    /\ UNCHANGED <<kernelState, ints, cpu, halted, knext, hist, sret>>

\* loop { let mut mailboxes = MAILBOXES.lock();
RecvLockMailboxes(t) ==
    /\ Runs(t) /\ pc[t] = "r_mlock"
    /\ Free("mbox")
    /\ locks' = Acquire("mbox", t)
    /\ pc' = Goto(t, "r_pop")
    /\ UNCHANGED <<kernelState, ints, cpu, halted, loc, knext, hist, sret>>

\* pop_front(): Some(msg) -> return msg; None -> drop(mailboxes)
\* Mutant of pop_front: the message is returned but stays in the mailbox.
pop_front_kept(box) == box

\* What pop_front leaves in a non-empty mailbox.
pop_front(box) == Tail(box)

RecvPop(t) ==
    /\ Runs(t) /\ pc[t] = "r_pop"
    /\ LET box == mailboxes[loc[t].my_id] IN
       IF box # << >> THEN
           /\ mailboxes' = [mailboxes EXCEPT ![loc[t].my_id] = pop_front(box)]
           /\ hist' = [hist EXCEPT !.recv[t] = Append(@, Head(box))]
           /\ loc' = [loc EXCEPT ![t].got = Head(box), ![t].my_id = NoThread]
           /\ pc' = Return(t)
       ELSE
           /\ pc' = Goto(t, "r_slock")
           /\ UNCHANGED <<mailboxes, hist, loc>>
    /\ locks' = Release("mbox")
    /\ UNCHANGED <<mem, script, tasks, current, registry, counter, waiting_tasks, ints, cpu,
                   halted, knext, sret>>

\* let mut scheduler = crate::SCHEDULER.lock();
RecvLockScheduler(t) ==
    /\ Runs(t) /\ pc[t] = "r_slock"
    /\ Free("sched")
    /\ locks' = Acquire("sched", t)
    /\ pc' = Goto(t, "r_block")
    /\ UNCHANGED <<kernelState, ints, cpu, halted, loc, knext, hist, sret>>

\* current_task.state = TaskState::Blocked;
RecvBlock(t) ==
    /\ Runs(t) /\ pc[t] = "r_block"
    /\ tasks' = SetState(tasks, loc[t].my_id, "Blocked")
    /\ pc' = Goto(t, "r_sdrop")
    /\ UNCHANGED <<mem, script, current, mailboxes, registry, counter, waiting_tasks, locks,
                   ints, cpu, halted, loc, knext, hist, sret>>

\* end of the block: the scheduler guard is dropped
RecvDropScheduler(t) ==
    /\ Runs(t) /\ pc[t] = "r_sdrop"
    /\ locks' = Release("sched")
    /\ pc' = Goto(t, "r_int")
    /\ UNCHANGED <<kernelState, ints, cpu, halted, loc, knext, hist, sret>>

\* asm!("int {}", Timer): the handler runs; on resume the loop starts again
RecvYield(t) ==
    /\ Runs(t) /\ pc[t] = "r_int"
    /\ timer_interrupt_handler
    /\ pc' = Goto(t, "r_mlock")
    /\ UNCHANGED <<mem, script, mailboxes, registry, counter, waiting_tasks, locks, ints,
                   loc, knext, sret>>

Receive(t) ==
    \/ RecvLockId(t)
    \/ RecvId(t)
    \/ RecvLockMailboxes(t)
    \/ RecvPop(t)
    \/ RecvLockScheduler(t)
    \/ RecvBlock(t)
    \/ RecvDropScheduler(t)
    \/ RecvYield(t)

\* -------------------------------------------------------- Semaphore::down
\* let mut value = self.counter.load(Relaxed);
DownLoad(t) ==
    /\ Runs(t) /\ pc[t] = "d_load"
    /\ loc' = [loc EXCEPT ![t].value = counter]
    /\ pc' = Goto(t, "d_cas")
    /\ UNCHANGED <<kernelState, locks, ints, cpu, halted, knext, hist, sret>>

\* Mutant of the compare-and-swap: a plain store that always succeeds.
CasAlways(value) == TRUE

\* compare_exchange(value, value - 1): succeeds exactly when the counter still
\* holds the value loaded.
CasSucceeds(value) == counter = value

\* if value > 0 { if compare_exchange(..).is_ok() { return; } continue; }
DownCas(t) ==
    /\ Runs(t) /\ pc[t] = "d_cas"
    /\ IF loc[t].value > 0 THEN
           IF CasSucceeds(loc[t].value) THEN
               /\ counter' = loc[t].value - 1
               /\ hist' = [hist EXCEPT !.downs = @ + 1]
               /\ pc' = Return(t)
           ELSE
               /\ pc' = Goto(t, "d_load")
               /\ UNCHANGED <<counter, hist>>
       ELSE
           /\ pc' = Goto(t, "d_lock")
           /\ UNCHANGED <<counter, hist>>
    /\ loc' = [loc EXCEPT ![t].value = 0]
    /\ UNCHANGED <<mem, script, tasks, current, mailboxes, registry, waiting_tasks, locks,
                   ints, cpu, halted, knext, sret>>

\* crate::SCHEDULER.lock() of "let my_id = ..."
DownLockId(t) ==
    /\ Runs(t) /\ pc[t] = "d_lock"
    /\ Free("sched")
    /\ locks' = Acquire("sched", t)
    /\ pc' = Goto(t, "d_id")
    /\ UNCHANGED <<kernelState, ints, cpu, halted, loc, knext, hist, sret>>

\* .current_task_id(); the guard is dropped with the statement
DownId(t) ==
    /\ Runs(t) /\ pc[t] = "d_id"
    /\ loc' = [loc EXCEPT ![t].my_id = current_task_id]
    /\ locks' = Release("sched")
    /\ pc' = Goto(t, "d_wlock")
    /\ UNCHANGED <<kernelState, ints, cpu, halted, knext, hist, sret>>

\* self.waiting_tasks.lock()
DownLockWaiters(t) ==
    /\ Runs(t) /\ pc[t] = "d_wlock"
    /\ Free("waiters")
    /\ locks' = Acquire("waiters", t)
    /\ pc' = Goto(t, "d_push")
    /\ UNCHANGED <<kernelState, ints, cpu, halted, loc, knext, hist, sret>>

\* .push_back(my_id); the guard is dropped with the statement
DownEnqueue(t) ==
    /\ Runs(t) /\ pc[t] = "d_push"
    /\ Len(waiting_tasks) < MaxQueue
    /\ waiting_tasks' = Append(waiting_tasks, loc[t].my_id)
    /\ locks' = Release("waiters")
    /\ pc' = Goto(t, "d_slock")
    /\ UNCHANGED <<mem, script, tasks, current, mailboxes, registry, counter, ints, cpu,
                   halted, loc, knext, hist, sret>>

\* let mut scheduler = crate::SCHEDULER.lock();
DownLockScheduler(t) ==
    /\ Runs(t) /\ pc[t] = "d_slock"
    /\ Free("sched")
    /\ locks' = Acquire("sched", t)
    /\ pc' = Goto(t, "d_block")
    /\ UNCHANGED <<kernelState, ints, cpu, halted, loc, knext, hist, sret>>

\* current_task.state = TaskState::Blocked;
DownBlock(t) ==
    /\ Runs(t) /\ pc[t] = "d_block"
    /\ tasks' = SetState(tasks, loc[t].my_id, "Blocked")
    /\ pc' = Goto(t, "d_sdrop")
    /\ UNCHANGED <<mem, script, current, mailboxes, registry, counter, waiting_tasks, locks,
                   ints, cpu, halted, loc, knext, hist, sret>>

\* end of the block: the scheduler guard is dropped
DownDropScheduler(t) ==
    /\ Runs(t) /\ pc[t] = "d_sdrop"
    /\ locks' = Release("sched")
    /\ pc' = Goto(t, "d_yield")
    /\ loc' = [loc EXCEPT ![t].my_id = NoThread]
    /\ UNCHANGED <<kernelState, ints, cpu, halted, knext, hist, sret>>

\* task::yield_now(): int Timer; on resume the loop starts again
DownYield(t) ==
    /\ Runs(t) /\ pc[t] = "d_yield"
    /\ timer_interrupt_handler
    /\ pc' = Goto(t, "d_load")
    /\ UNCHANGED <<mem, script, mailboxes, registry, counter, waiting_tasks, locks, ints,
                   loc, knext, sret>>

Down(t) ==
    \/ DownLoad(t)
    \/ DownCas(t)
    \/ DownLockId(t)
    \/ DownId(t)
    \/ DownLockWaiters(t)
    \/ DownEnqueue(t)
    \/ DownLockScheduler(t)
    \/ DownBlock(t)
    \/ DownDropScheduler(t)
    \/ DownYield(t)

\* ---------------------------------------------------------- Semaphore::up
\* Mutant of fetch_add: the new value is not stored.
fetch_add_lost(c) == c

\* self.counter.fetch_add(1, Release);
fetch_add(c) == c + 1

UpAdd(t) ==
    /\ Runs(t) /\ pc[t] = "u_add"
    /\ counter' = fetch_add(counter)
    /\ hist' = [hist EXCEPT !.ups = @ + 1]
    /\ pc' = Goto(t, "u_wlock")
    /\ UNCHANGED <<mem, script, tasks, current, mailboxes, registry, waiting_tasks, locks,
                   ints, cpu, halted, loc, knext, sret>>

\* self.waiting_tasks.lock() of the if-let scrutinee: the guard is a temporary
\* of the scrutinee and lives to the end of the if-let.
UpLockWaiters(t) ==
    /\ Runs(t) /\ pc[t] = "u_wlock"
    /\ Free("waiters")
    /\ locks' = Acquire("waiters", t)
    /\ pc' = Goto(t, "u_pop")
    /\ UNCHANGED <<kernelState, ints, cpu, halted, loc, knext, hist, sret>>

\* .pop_front(): Some(task_id) -> the body; None -> the guard is dropped, return
UpPop(t) ==
    /\ Runs(t) /\ pc[t] = "u_pop"
    /\ IF waiting_tasks # << >> THEN
           /\ loc' = [loc EXCEPT ![t].task_id = Head(waiting_tasks)]
           /\ waiting_tasks' = Tail(waiting_tasks)
           /\ pc' = Goto(t, "u_slock")
           /\ UNCHANGED locks
       ELSE
           /\ locks' = Release("waiters")
           /\ pc' = Return(t)
           /\ UNCHANGED <<loc, waiting_tasks>>
    /\ UNCHANGED <<mem, script, tasks, current, mailboxes, registry, counter, ints, cpu,
                   halted, knext, hist, sret>>

\* let mut scheduler = crate::SCHEDULER.lock();
UpLockScheduler(t) ==
    /\ Runs(t) /\ pc[t] = "u_slock"
    /\ Free("sched")
    /\ locks' = Acquire("sched", t)
    /\ pc' = Goto(t, "u_wake")
    /\ UNCHANGED <<kernelState, ints, cpu, halted, loc, knext, hist, sret>>

\* up's wake-up: task.state = TaskState::Ready, whatever the state was.
WakeWaiter(ts, id) == SetState(ts, id, "Ready")

UpWake(t) ==
    /\ Runs(t) /\ pc[t] = "u_wake"
    /\ tasks' = WakeWaiter(tasks, loc[t].task_id)
    /\ hist' = [hist EXCEPT !.since = AfterWake(@, tasks, tasks')]
    /\ pc' = Goto(t, "u_sdrop")
    /\ UNCHANGED <<mem, script, current, mailboxes, registry, counter, waiting_tasks, locks,
                   ints, cpu, halted, loc, knext, sret>>

\* end of the if-let body: the scheduler guard is dropped
UpDropScheduler(t) ==
    /\ Runs(t) /\ pc[t] = "u_sdrop"
    /\ locks' = Release("sched")
    /\ pc' = Goto(t, "u_wdrop")
    /\ UNCHANGED <<kernelState, ints, cpu, halted, loc, knext, hist, sret>>

\* end of the if-let: the waiter-queue guard is dropped, return
UpReturn(t) ==
    /\ Runs(t) /\ pc[t] = "u_wdrop"
    /\ locks' = Release("waiters")
    /\ pc' = Return(t)
    /\ loc' = [loc EXCEPT ![t].task_id = NoThread]
    /\ UNCHANGED <<kernelState, ints, cpu, halted, knext, hist, sret>>

Up(t) ==
    \/ UpAdd(t)
    \/ UpLockWaiters(t)
    \/ UpPop(t)
    \/ UpLockScheduler(t)
    \/ UpWake(t)
    \/ UpDropScheduler(t)
    \/ UpReturn(t)

\* ---------------------------------------------------------- free workload
\* A task between two calls starts any call of the kernel's task interface:
\* send to any TaskId (NumTasks is the id of no task), receive, down or up.
\* The k-th message a task sends is 10 * (id + 1) + k, so that a message
\* names its sender and its place in the sender's order.
MessageOf(t, k) == 10 * (t + 1) + k
SenderOf(m) == (m \div 10) - 1

CallSend(t) ==
    /\ Runs(t) /\ pc[t] = "idle"
    /\ hist.calls[t] < MaxOps
    /\ \E r \in 0 .. NumTasks :
         loc' = [loc EXCEPT ![t].to = r, ![t].msg = MessageOf(t, hist.nsent[t] + 1)]
    /\ pc' = Goto(t, "s_lock")
    /\ hist' = [hist EXCEPT !.calls[t] = @ + 1]
    /\ UNCHANGED <<kernelState, locks, ints, cpu, halted, knext, sret>>

CallOther(t) ==
    /\ Runs(t) /\ pc[t] = "idle"
    /\ hist.calls[t] < MaxOps
    /\ \E p \in {"r_lock", "d_load", "u_add"} : pc' = Goto(t, p)
    /\ hist' = [hist EXCEPT !.calls[t] = @ + 1]
    /\ UNCHANGED <<kernelState, locks, ints, cpu, halted, loc, knext, sret>>

Next ==
    \/ Boot
    \/ Tick
    \/ \E t \in TaskIds : CallSend(t)
    \/ \E t \in TaskIds : CallOther(t)
    \/ \E t \in TaskIds : Send(t)
    \/ \E t \in TaskIds : Receive(t)
    \/ \E t \in TaskIds : Down(t)
    \/ \E t \in TaskIds : Up(t)

Spec == Init /\ [][Next]_vars

\* ---------------------------------------------------- scripted workloads
\* let id = { let registry = TASK_REGISTRY.lock(); ... }: the lock
LookupLock(t) ==
    /\ Runs(t) /\ pc[t] = "l_lock"
    /\ Free("registry")
    /\ locks' = Acquire("registry", t)
    /\ pc' = Goto(t, "l_get")
    /\ UNCHANGED <<kernelState, ints, cpu, halted, loc, knext, hist, sret>>

\* *registry.get(name).unwrap(); the guard is dropped with the block
LookupGet(t) ==
    /\ Runs(t) /\ pc[t] = "l_get"
    /\ \E e \in registry :
         /\ e[1] = loc[t].name
         /\ loc' = [loc EXCEPT ![t].peer = e[2], ![t].name = ""]
    /\ locks' = Release("registry")
    /\ pc' = Return(t)
    /\ UNCHANGED <<kernelState, ints, cpu, halted, knext, hist, sret>>

Lookup(t) ==
    \/ LookupLock(t)
    \/ LookupGet(t)

\* println!: _print takes WRITER.lock()
PrintLock(t) ==
    /\ Runs(t) /\ pc[t] = "p_lock"
    /\ Free("writer")
    /\ locks' = Acquire("writer", t)
    /\ pc' = Goto(t, "p_write")
    /\ UNCHANGED <<kernelState, ints, cpu, halted, loc, knext, hist, sret>>

\* .write_fmt(args): the line is on the console; the guard is dropped.
\* A line is <<task, value printed>>.
PrintWrite(t) ==
    /\ Runs(t) /\ pc[t] = "p_write"
    /\ hist' = [hist EXCEPT !.console = Append(@, <<t, loc[t].got>>)]
    /\ locks' = Release("writer")
    /\ pc' = Return(t)
    /\ UNCHANGED <<kernelState, ints, cpu, halted, loc, knext, sret>>

Println(t) ==
    \/ PrintLock(t)
    \/ PrintWrite(t)

\* The task's entry function makes its next call.
CallScript(t) ==
    /\ Runs(t) /\ pc[t] = "idle"
    /\ loc[t].ip <= Len(script[t])
    /\ LET op == script[t][loc[t].ip]
           l == [loc[t] EXCEPT !.ip = @ + 1] IN
       CASE op = "lookup ping" ->
              /\ loc' = [loc EXCEPT ![t] = [l EXCEPT !.name = "ping"]]
              /\ pc' = Goto(t, "l_lock")
         [] op = "lookup pong" ->
              /\ loc' = [loc EXCEPT ![t] = [l EXCEPT !.name = "pong"]]
              /\ pc' = Goto(t, "l_lock")
         [] op = "send 42" ->
              /\ loc' = [loc EXCEPT ![t] = [l EXCEPT !.to = l.peer, !.msg = PingMsg]]
              /\ pc' = Goto(t, "s_lock")
         [] op = "send reply" ->
              /\ loc' = [loc EXCEPT ![t] = [l EXCEPT !.to = l.peer, !.msg = l.got + 1]]
              /\ pc' = Goto(t, "s_lock")
         [] op = "send other" ->
              /\ loc' = [loc EXCEPT ![t] = [l EXCEPT !.to = 1 - t,
                                              !.msg = MessageOf(t, hist.nsent[t] + 1)]]
              /\ pc' = Goto(t, "s_lock")
         [] op = "receive" -> loc' = [loc EXCEPT ![t] = l] /\ pc' = Goto(t, "r_lock")
         [] op = "down" -> loc' = [loc EXCEPT ![t] = l] /\ pc' = Goto(t, "d_load")
         [] op = "up" -> loc' = [loc EXCEPT ![t] = l] /\ pc' = Goto(t, "u_add")
         [] op = "println" -> loc' = [loc EXCEPT ![t] = l] /\ pc' = Goto(t, "p_lock")
    /\ UNCHANGED <<kernelState, locks, ints, cpu, halted, knext, hist, sret>>

\* The entry function has made all its calls and the last one has returned:
\* the task is in its final loop {}.
Done(t) == pc[t] = "idle" /\ loc[t].ip > Len(script[t])

\* ping_entry and pong_entry of main.rs
ping_entry == <<"lookup pong", "send 42", "receive", "down", "println", "up">>
pong_entry == <<"receive", "down", "println", "up", "lookup ping", "send reply">>

\* A step of a task's entry function, whatever call it is in.
EntryStep(t) ==
    /\ Runs(t)
    /\ \/ CallScript(t)
       \/ Lookup(t)
       \/ Send(t)
       \/ Receive(t)
       \/ Down(t)
       \/ Println(t)
       \/ Up(t)

InitPingPong == Boots([t \in TaskIds |-> IF t = 0 THEN ping_entry ELSE pong_entry])

NextPingPong ==
    \/ Boot
    \/ Tick
    \/ \E t \in TaskIds : EntryStep(t)

\* The timer keeps ticking, and the CPU executes instructions of the thread
\* it runs between two ticks: a thread that is given the CPU again and again
\* makes its next step.
SpecPingPong ==
    /\ InitPingPong
    /\ [][NextPingPong]_vars
    /\ SF_vars(Boot)
    /\ WF_vars(Tick)
    /\ SF_vars(\E t \in TaskIds : EntryStep(t))

\* Semaphore workload: each task does down; println; up MaxIter times and
\* then loops forever.
RECURSIVE Repeat(_, _)
Repeat(q, n) == IF n = 0 THEN << >> ELSE q \o Repeat(q, n - 1)

guarded_print == <<"down", "println", "up">>

InitSem == Boots([t \in TaskIds |-> Repeat(guarded_print, MaxIter)])

NextSem ==
    \/ Boot
    \/ Tick
    \/ \E t \in TaskIds : CallScript(t)
    \/ \E t \in TaskIds : Down(t)
    \/ \E t \in TaskIds : Println(t)
    \/ \E t \in TaskIds : Up(t)

SpecSem == InitSem /\ [][NextSem]_vars

SpecSemFair ==
    /\ SpecSem
    /\ SF_vars(Boot)
    /\ WF_vars(Tick)
    /\ SF_vars(\E t \in TaskIds : CallScript(t) \/ Down(t) \/ Println(t) \/ Up(t))

\* Receive workload: one task calls receive(), the other sends it one
\* message and then computes forever.
InitRecv ==
    \E r \in TaskIds :
        Boots([t \in TaskIds |-> IF t = r THEN <<"receive">> ELSE <<"send other">>])

NextRecv ==
    \/ Boot
    \/ Tick
    \/ \E t \in TaskIds : CallScript(t)
    \/ \E t \in TaskIds : Send(t)
    \/ \E t \in TaskIds : Receive(t)

SpecRecv ==
    /\ InitRecv
    /\ [][NextRecv]_vars
    /\ SF_vars(Boot)
    /\ WF_vars(Tick)
    /\ SF_vars(\E t \in TaskIds : CallScript(t) \/ Send(t) \/ Receive(t))

\* Wake-up workload: one task takes the semaphore, waits for it in a second
\* down() and then calls up(); the other sends the waiter a message and
\* calls up().
InitWake ==
    \E w \in TaskIds :
        Boots([t \in TaskIds |-> IF t = w THEN <<"down", "down", "up">>
                                            ELSE <<"send other", "up">>])

NextWake ==
    \/ Boot
    \/ Tick
    \/ \E t \in TaskIds : CallScript(t)
    \/ \E t \in TaskIds : Send(t)
    \/ \E t \in TaskIds : Down(t)
    \/ \E t \in TaskIds : Up(t)

SpecWake == InitWake /\ [][NextWake]_vars

\* ------------------------------------------- scheduler-selection workload
\* A scheduler of N >= 2 tasks in any state the kernel can bring it to (only
\* the task at current may be Running), on which schedule() is called and
\* tasks are blocked and woken as receive, send and up do it.
TaskStates == {"Ready", "Running", "Blocked"}

SchedulerStates(n) ==
    { ts \in [1 .. n -> [id : 0 .. (n - 1), state : TaskStates, context : 0 .. (n - 1)]] :
        \A i \in 1 .. n : ts[i].id = i - 1 /\ ts[i].context = i - 1 }

SchedulerOf(sizes) ==
    /\ \E n \in sizes : \E ts \in SchedulerStates(n) : \E c \in 0 .. (n - 1) :
         /\ \A i \in 1 .. n : ts[i].state = "Running" => i = c + 1
         /\ tasks = ts
         /\ current = c
    /\ script = [t \in TaskIds |-> << >>]
    /\ mem = [memory_map |-> << >>, missing_tables |-> 0, next |-> 0,
              pages |-> << >>, tables |-> << >>, heap |-> TRUE]
    /\ mailboxes = << >>
    /\ registry = {}
    /\ counter = SemInitial
    /\ waiting_tasks = << >>
    /\ locks = [l \in LockNames |-> NoThread]
    /\ ints = FALSE
    /\ cpu = KernelThread
    /\ halted = "run"
    /\ pc = [t \in Threads |-> "idle"]
    /\ loc = [t \in TaskIds |-> NoLocals]
    /\ knext = 0 - 1
    /\ hist = [ups |-> 0, downs |-> 0,
               recv |-> [t \in TaskIds |-> << >>],
               nsent |-> [t \in TaskIds |-> 0],
               nfalse |-> [t \in TaskIds |-> 0],
               rt |-> [t \in TaskIds |-> 0],
               calls |-> [t \in TaskIds |-> 0],
               console |-> << >>,
               since |-> [i \in 1 .. Len(tasks) |-> 0]]
    /\ sret = [kind |-> "init"]

InitSched == SchedulerOf(2 .. MaxTasks)

SchedUnchanged ==
    UNCHANGED <<mem, mailboxes, registry, counter, waiting_tasks, locks, ints, cpu,
                halted, pc, loc, script, knext>>

\* A call of schedule(); the call and its result are recorded in sret.
ScheduleCall ==
    /\ halted = "run"
    /\ LET r == schedule(tasks, current) IN
         /\ r.kind # "panic"
         /\ tasks' = r.tasks
         /\ current' = r.current
         /\ sret' = [kind |-> r.kind, pre_tasks |-> tasks, pre_current |-> current,
                     post_tasks |-> r.tasks, post_current |-> r.current,
                     save |-> r.save, load |-> r.load]
         /\ hist' = [hist EXCEPT !.since = AfterSchedule(@, tasks, r.tasks)]
    /\ SchedUnchanged

\* receive and down block the calling task.
BlockCurrent ==
    /\ halted = "run"
    /\ tasks[current + 1].state # "Blocked"
    /\ tasks' = SetState(tasks, current_task_id, "Blocked")
    /\ UNCHANGED <<current, sret, hist>>
    /\ SchedUnchanged

\* send wakes the receiver, up wakes the waiter it has popped.
WakeTask ==
    /\ halted = "run"
    /\ \E id \in 0 .. (Len(tasks) - 1) :
         /\ tasks[id + 1].state = "Blocked"
         /\ tasks' = WakeIfBlocked(tasks, id)
    /\ hist' = [hist EXCEPT !.since = AfterWake(@, tasks, tasks')]
    /\ UNCHANGED <<current, sret>>
    /\ SchedUnchanged

NextSched ==
    \/ ScheduleCall
    \/ BlockCurrent
    \/ WakeTask

SpecSched == InitSched /\ [][NextSched]_vars

\* The same workload on schedulers of one task and more.  A call of
\* schedule() that panics (index out of bounds in the split) stops the kernel.
InitSchedAny == SchedulerOf(1 .. MaxTasks)

SchedulePanics ==
    /\ halted = "run"
    /\ LET r == schedule(tasks, current) IN
         /\ r.kind = "panic"
         /\ sret' = [kind |-> r.kind, pre_tasks |-> tasks, pre_current |-> current,
                     post_tasks |-> r.tasks, post_current |-> r.current,
                     save |-> r.save, load |-> r.load]
    /\ halted' = "crash"
    /\ UNCHANGED <<mem, tasks, current, mailboxes, registry, counter, waiting_tasks, locks,
                   ints, cpu, pc, loc, script, knext, hist>>

NextSchedAny ==
    \/ ScheduleCall
    \/ BlockCurrent
    \/ WakeTask
    \/ SchedulePanics

SpecSchedAny == InitSchedAny /\ [][NextSchedAny]_vars

\* ------------------------------------------------ frame-allocator workload
\* A BootInfoFrameAllocator over any memory map of up to MaxRegions regions,
\* usable or not, in any order, whose usable regions are 4 KiB-aligned and
\* pairwise disjoint; allocate_frame() is called again and again and what it
\* returns is logged in sret.returned.
AllocRegions ==
    {Region(a * PAGE_SIZE, (a + n) * PAGE_SIZE, u) :
        a \in 0 .. (MaxRegions * MaxRegionFrames - 1), n \in 0 .. MaxRegionFrames,
        u \in BOOLEAN}

Disjoint(r, q) == r.end <= q.start \/ q.end <= r.start

AllocMaps ==
    UNION {{m \in [1 .. n -> AllocRegions] :
              \A i, j \in 1 .. n : (i < j /\ m[i].usable /\ m[j].usable)
                                       => Disjoint(m[i], m[j])} :
           n \in 0 .. MaxRegions}

InitAlloc ==
    /\ \E m \in AllocMaps :
         mem = [memory_map |-> m, missing_tables |-> 0, next |-> 0,
                pages |-> << >>, tables |-> << >>, heap |-> FALSE]
    /\ sret = [kind |-> "alloc", returned |-> << >>]
    /\ tasks = << >>
    /\ current = 0
    /\ script = [t \in TaskIds |-> << >>]
    /\ mailboxes = << >>
    /\ registry = {}
    /\ counter = SemInitial
    /\ waiting_tasks = << >>
    /\ locks = [l \in LockNames |-> NoThread]
    /\ ints = FALSE
    /\ cpu = KernelThread
    /\ halted = "run"
    /\ pc = [t \in Threads |-> "idle"]
    /\ loc = [t \in TaskIds |-> NoLocals]
    /\ knext = 0 - 1
    /\ hist = [ups |-> 0, downs |-> 0,
               recv |-> [t \in TaskIds |-> << >>],
               nsent |-> [t \in TaskIds |-> 0],
               nfalse |-> [t \in TaskIds |-> 0],
               rt |-> [t \in TaskIds |-> 0],
               calls |-> [t \in TaskIds |-> 0],
               console |-> << >>,
               since |-> << >>]

\* let frame = self.usable_frames().nth(self.next); self.next += 1; frame
AllocateFrame ==
    /\ Len(sret.returned) < MaxAlloc
    /\ sret' = [sret EXCEPT !.returned =
                  Append(@, allocate_frame(mem.memory_map, mem.next))]
    /\ mem' = [mem EXCEPT !.next = @ + 1]
    /\ UNCHANGED <<tasks, current, mailboxes, registry, counter, waiting_tasks, locks,
                   ints, cpu, halted, pc, loc, script, knext, hist>>

NextAlloc == AllocateFrame

SpecAlloc == InitAlloc /\ [][NextAlloc]_vars

\* ================================================================ claims
Running == {i \in 1 .. Len(tasks) : tasks[i].state = "Running"}

\* kernel_main has made the first scheduling decision (its schedule() call).
SchedulingBegun == pc[KernelThread] \in {"k_drop", "k_enable", "k_switch", "k_done"}

\* C1: in every reachable state at most one task of the scheduler has state
\* Running.
C1_AtMostOneRunning == Cardinality(Running) <= 1

\* C1 witness: after ticks, a send, a receive, a down and an up have acted,
\* exactly one task is Running while the other one is Blocked.
C1_Witness ==
    /\ Cardinality(Running) = 1
    /\ \E i \in 1 .. Len(tasks) : tasks[i].state = "Blocked"
    /\ hist.ups > 0 /\ hist.downs > 0
    /\ \E t \in TaskIds : hist.nsent[t] > 0

\* C2 as stated: once the first scheduling decision has been made, exactly one
\* task is Running and it is the task at the current index.
C2_ExactlyOneRunningAtCurrent ==
    SchedulingBegun =>
        /\ Cardinality(Running) = 1
        /\ tasks[current + 1].state = "Running"

\* C2 amended: once the first scheduling decision has been made, every task
\* that is Running is the task at the current index (so at most one is);
\* there may be none.
C2_RunningOnlyAtCurrent ==
    SchedulingBegun => \A i \in Running : i = current + 1

\* C2 witness: scheduling has begun, a tick has switched tasks, and the task
\* at the current index is Running while it executes receive.
C2_Witness ==
    /\ SchedulingBegun
    /\ current = 0
    /\ Running = {1}
    /\ cpu = 0
    /\ pc[0] = "r_pop"

\* C8 as stated: counter + #waiters = initial + #up - #down returned.
C8_CounterPlusWaiters ==
    counter + Len(waiting_tasks) = SemInitial + hist.ups - hist.downs

\* C8 amended: the entries of the waiter queue are not part of the balance:
\* counter = initial + #up - #down returned, an up counting from its
\* fetch_add on, whatever the length of the waiter queue.
C8_WaitersNotInBalance ==
    counter = SemInitial + hist.ups - hist.downs

\* C8 witness: ups and downs have both happened and a waiter is queued.
C8_Witness ==
    /\ hist.ups > 0
    /\ hist.downs > 1
    /\ waiting_tasks # << >>

\* State of the task with this id.
StateOf(id) == tasks[Find(tasks, id) + 1].state

\* C9: whenever the waiter-queue lock is not held: if the counter is zero,
\* every TaskId in the waiter queue is that of a Blocked task; if the counter
\* is positive, the waiter queue is empty.
C9_WaitersBlockedOrNone ==
    Free("waiters") =>
        /\ counter = 0 =>
             \A k \in 1 .. Len(waiting_tasks) : StateOf(waiting_tasks[k]) = "Blocked"
        /\ counter > 0 => waiting_tasks = << >>

\* Messages of sender s in a sequence of messages, in the sequence's order.
FromSender(q, s) == SelectSeq(q, LAMBDA m : SenderOf(m) = s)

\* What receiver r has been handed so far followed by what still waits in
\* its mailbox.
Delivered(r) == hist.recv[r] \o (IF r \in DOMAIN mailboxes THEN mailboxes[r] ELSE << >>)

\* C5: the messages one sender sent to one receiver are handed to the
\* receiver in the order they were sent, none lost and none twice: for every
\* sender the messages received by or waiting for each receiver are in send
\* order, and together they are exactly the messages the sender's successful
\* sends appended.
C5_FifoPerSender ==
    \A s \in TaskIds :
        /\ \A r \in TaskIds :
             LET q == FromSender(Delivered(r), s) IN
             \A a, b \in 1 .. Len(q) : a < b => q[a] < q[b]
        /\ LET all == UNION {{<<r, k>> : k \in 1 .. Len(FromSender(Delivered(r), s))} :
                             r \in TaskIds} IN
           /\ Cardinality(all) = hist.nsent[s]
           /\ {FromSender(Delivered(p[1]), s)[p[2]] : p \in all}
                  = {MessageOf(s, k) : k \in 1 .. hist.nsent[s]}

\* C5 witness: a receiver has been handed two messages of one sender, after
\* having blocked in between or not.
C5_Witness ==
    \E r \in TaskIds : \E s \in TaskIds :
        /\ s # r
        /\ Len(FromSender(hist.recv[r], s)) = 2

\* kernel_main has performed the first context switch into a task.
FirstSwitchDone == pc[KernelThread] = "k_done" /\ halted = "run"

\* The two task lines of the ping-pong scenario: pong's, then ping's.
ExpectedConsole == << <<1, PingMsg>>, <<0, PingMsg + 1>> >>

\* C3: from the boot configuration built by kernel_main, with the first
\* context switch performed and the timer ticking, every execution eventually
\* has printed "pong: received message: 42" and then "ping: received reply:
\* 43", exactly those two task lines in that order.
\* An execution that stops in a timer handler spinning on the scheduler lock
\* or in a crash is not counted against the claim.
C3_PingPongPrints ==
    [](FirstSwitchDone => <>(halted # "run" \/ [](hist.console = ExpectedConsole)))

\* The task that calls receive() in the receive workload.
IsReceiver(r) == script[r] = <<"receive">>

\* C4: if a task calls receive() and another task's send() to it returns
\* true, the receiver eventually returns from receive() with that message,
\* even when the other task computes forever afterwards.  An execution that
\* stops in a hung timer handler or in a crash is not counted against the
\* claim.
C4_ReceiveReturns ==
    \A r \in TaskIds : \A s \in TaskIds \ {r} :
        [](IsReceiver(r) /\ Done(s) /\ hist.nsent[s] = 1
             => <>(\/ halted # "run"
                   \/ Done(r) /\ hist.recv[r] = <<MessageOf(s, 1)>>))

\* Task t is between a returned down() and its next up() call.
Holding(t) ==
    \/ pc[t] \in {"p_lock", "p_write"}
    \/ /\ pc[t] = "idle"
       /\ loc[t].ip <= Len(script[t])
       /\ script[t][loc[t].ip] \in {"println", "up"}

\* C6: with a semaphore of initial value 1 and every task calling up() only
\* after its own down() has returned, no two tasks are at the same time
\* between a returned down() and their next up().
C6_MutualExclusion ==
    \A a \in TaskIds : \A b \in TaskIds \ {a} : ~(Holding(a) /\ Holding(b))

\* C6 witness: one task is inside its guarded print while the other one has
\* queued itself in down() and is Blocked, after an earlier up().
C6_Witness ==
    \E a \in TaskIds : \E b \in TaskIds \ {a} :
        /\ pc[a] = "p_write"
        /\ pc[b] = "d_load"
        /\ StateOf(b) = "Blocked"
        /\ b \in {waiting_tasks[k] : k \in 1 .. Len(waiting_tasks)}
        /\ hist.ups > 0

\* C7: two tasks each doing down(); critical section; up() a finite number of
\* times on a semaphore of initial value 1, with the timer ticking: each task
\* eventually completes all its iterations.  An execution that stops in a
\* hung timer handler or in a crash is not counted against the claim.
C7_NoStarvation ==
    [](FirstSwitchDone => <>(halted # "run" \/ \A t \in TaskIds : Done(t)))

\* The offsets k in 1 .. N-1 at which the scan from current finds a Ready task.
ReadyOffsets(ts, cur) ==
    {k \in 1 .. (Len(ts) - 1) : ts[((cur + k) % Len(ts)) + 1].state = "Ready"}

MinOf(S) == CHOOSE k \in S : \A m \in S : k <= m

\* C10: for N >= 2 tasks schedule() selects the first Ready task in the order
\* (current+1) mod N, (current+2) mod N, ... and returns none when there is
\* none before the scan reaches current; on selecting j it sets current = j,
\* changes the outgoing task from Running to Ready (a Blocked one stays
\* Blocked), sets task j to Running, changes no other task, and returns the
\* outgoing task's context to save into and task j's context to load from.
C10_ScheduleSelection ==
    sret.kind # "init" =>
        LET pre == sret.pre_tasks
            post == sret.post_tasks
            cur == sret.pre_current
            offs == ReadyOffsets(pre, cur) IN
        /\ sret.kind \in {"none", "some"}
        /\ (sret.kind = "none") <=> (offs = {})
        /\ sret.kind = "none" => post = pre /\ sret.post_current = cur
        /\ sret.kind = "some" =>
             LET j == (cur + MinOf(offs)) % Len(pre) IN
             /\ sret.post_current = j
             /\ sret.save = cur /\ sret.load = j
             /\ Len(post) = Len(pre)
             /\ post[j + 1] = [pre[j + 1] EXCEPT !.state = "Running"]
             /\ post[cur + 1] =
                  [pre[cur + 1] EXCEPT !.state = IF @ = "Running" THEN "Ready" ELSE @]
             /\ \A i \in 1 .. Len(pre) : i \notin {j + 1, cur + 1} => post[i] = pre[i]

\* C10 witness: among three tasks a Blocked outgoing task is switched away
\* from and the scan has skipped a task that is not Ready.
C10_Witness ==
    /\ sret.kind = "some"
    /\ Len(sret.pre_tasks) = 3
    /\ sret.pre_tasks[sret.pre_current + 1].state = "Blocked"
    /\ sret.post_tasks[sret.pre_current + 1].state = "Blocked"
    /\ sret.load = (sret.pre_current + 2) % 3

\* C11: round-robin progress: a task that is Ready and stays so is selected
\* (made Running) by one of the next N calls of schedule(), N the number of
\* tasks: no Ready task has stayed Ready through N calls.
C11_SelectedWithinN ==
    \A i \in 1 .. Len(tasks) :
        tasks[i].state = "Ready" => hist.since[i] < Len(tasks)

\* C12: with exactly one task in the scheduler, schedule() returns none when
\* the task is Running, and when the task is Ready (the boot case) it
\* completes normally, selects the task and marks it Running.
C12_SingleTask ==
    (sret.kind # "init" /\ Len(sret.pre_tasks) = 1) =>
        /\ sret.pre_tasks[1].state = "Running" => sret.kind = "none"
        /\ sret.pre_tasks[1].state = "Ready" =>
              /\ sret.kind = "some"
              /\ sret.post_tasks[1].state = "Running"

\* The ids of the tasks added with add_task.
AddedIds == {tasks[i].id : i \in 1 .. Len(tasks)}

\* C13: send(receiver, m) returns false exactly when receiver is the id of
\* no added task, and then no mailbox and no task state changes; when it
\* returns true, m has been appended at the tail of the receiver's mailbox,
\* whatever the mailbox's length.
C13_SendResult ==
    [][\A t \in TaskIds :
          (pc[t] = "s_get" /\ pc'[t] # "s_get") =>
              IF loc[t].to \notin AddedIds
              THEN /\ pc'[t] = "idle"
                   /\ hist'.nfalse[t] = hist.nfalse[t] + 1
                   /\ hist'.nsent = hist.nsent
                   /\ mailboxes' = mailboxes
                   /\ tasks' = tasks
              ELSE /\ pc'[t] = "s_slock"
                   /\ hist'.nsent[t] = hist.nsent[t] + 1
                   /\ hist'.nfalse = hist.nfalse
                   /\ mailboxes' = [mailboxes EXCEPT
                                       ![loc[t].to] = Append(@, loc[t].msg)]]_vars

\* C13 witness: a send has returned false, and a send has returned true on
\* a mailbox that already held a message.
C13_Witness ==
    /\ \E t \in TaskIds : hist.nfalse[t] > 0 /\ pc[t] = "idle"
    /\ \E r \in DOMAIN mailboxes : Len(mailboxes[r]) >= 2
    /\ \A t \in TaskIds :
         pc[t] \notin {"s_lock", "s_get", "s_slock", "s_wake", "s_sdrop", "s_drop"}

\* C14: round trip: when task t's mailbox was empty, a send(t, m) returned
\* true, and t then executes receive() with no other send to t in between,
\* receive() returns m at its first look at the mailbox, without blocking
\* the task, and t's mailbox is empty afterwards.
C14_RoundTrip ==
    [][\A t \in TaskIds :
          (pc[t] = "r_pop" /\ pc'[t] # "r_pop" /\ hist.rt[t] # 0) =>
              /\ pc'[t] = "idle"
              /\ loc'[t].got = hist.rt[t]
              /\ hist'.recv[t] = Append(hist.recv[t], hist.rt[t])
              /\ mailboxes'[t] = << >>
              /\ tasks' = tasks]_vars

\* C14 witness: a task has returned from a receive() that began after
\* another task's send to its empty mailbox had returned.
C14_Witness ==
    \E t \in TaskIds :
        /\ pc[t] = "idle"
        /\ hist.rt[t] # 0
        /\ SenderOf(hist.rt[t]) # t
        /\ loc[t].got = hist.rt[t]
        /\ mailboxes[t] = << >>
        /\ hist.recv[t] = <<hist.rt[t]>>

\* Number of frames of the usable regions before region i of the map.
RECURSIVE FramesBefore(_, _)
FramesBefore(map, i) ==
    IF i <= 1 THEN 0
    ELSE FramesBefore(map, i - 1)
         + (IF map[i - 1].usable
            THEN (map[i - 1].end - map[i - 1].start) \div PAGE_SIZE ELSE 0)

\* The k-th frame (k from 1) of the concatenated usable regions, -1 if the
\* regions have fewer than k frames.
KthFrame(map, k) ==
    LET holds(i) == /\ map[i].usable
                    /\ FramesBefore(map, i) < k
                    /\ k <= FramesBefore(map, i + 1)
        I == {i \in 1 .. Len(map) : holds(i)} IN
    IF I = {} THEN 0 - 1
    ELSE LET i == CHOOSE x \in I : TRUE IN
         map[i].start + (k - FramesBefore(map, i) - 1) * PAGE_SIZE

\* C15: over a memory map with aligned, pairwise disjoint usable regions,
\* the k-th call of allocate_frame() returns the k-th frame of the
\* concatenated usable regions, no two calls return the same frame, and
\* after a call has returned none every later call returns none.
C15_FramesDistinct ==
    sret.kind = "alloc" =>
        LET ret == sret.returned IN
        /\ \A k \in 1 .. Len(ret) : ret[k] = KthFrame(mem.memory_map, k)
        /\ \A a, b \in 1 .. Len(ret) : (a < b /\ ret[a] >= 0) => ret[a] # ret[b]
        /\ \A a, b \in 1 .. Len(ret) : (a < b /\ ret[a] < 0) => ret[b] < 0

\* C15 witness: over a map of two usable regions given out of address
\* order, frames of both regions have been returned, then none twice.
C15_Witness ==
    /\ sret.kind = "alloc"
    /\ Len(mem.memory_map) = 2
    /\ mem.memory_map[1].usable /\ mem.memory_map[2].usable
    /\ mem.memory_map[2].end <= mem.memory_map[1].start
    /\ Len(sret.returned) = 5
    /\ sret.returned[1] = mem.memory_map[1].start
    /\ sret.returned[3] = mem.memory_map[2].start
    /\ sret.returned[4] < 0 /\ sret.returned[5] < 0

\* C16: when init_heap has succeeded (the heap allocator is initialised),
\* every one of the HEAP_SIZE / 4096 = 25 pages of the heap window has been
\* mapped, once, to a frame of its own allocate_frame() call, different from
\* the frame of every other heap page (and from the page-table frames).
C16_HeapMappedOnce ==
    mem.heap =>
        /\ Len(mem.pages) = HEAP_SIZE \div PAGE_SIZE
        /\ \A a \in 1 .. Len(mem.pages) : mem.pages[a] >= 0
        /\ \A a, b \in 1 .. Len(mem.pages) : a < b => mem.pages[a] # mem.pages[b]
        /\ \A a \in 1 .. Len(mem.pages) : \A b \in 1 .. Len(mem.tables) :
              mem.pages[a] # mem.tables[b]

\* C16 witness: init_heap has succeeded over a map of two usable regions,
\* having created page tables and taken heap frames from both regions.
C16_Witness ==
    /\ mem.heap
    /\ pc[KernelThread] = "k_lock"
    /\ mem.tables # << >>
    /\ \E a, b \in 1 .. Len(mem.pages) :
          mem.pages[a] < mem.memory_map[3].start /\ mem.pages[b] >= mem.memory_map[3].end

\* allocate_frame() has returned none: more calls than the map has frames.
Exhausted == mem.next > Len(usable_frames(mem.memory_map))

\* kernel_main has panicked in init_heap's expect: the heap allocator is not
\* initialised, interrupts are off, no task exists, kernel_main is the
\* thread on the CPU and has not gone past init_heap.
PanickedAtBoot ==
    /\ halted = "panic"
    /\ ~mem.heap
    /\ ~ints
    /\ tasks = << >>
    /\ mailboxes = << >>
    /\ cpu = KernelThread
    /\ pc = [t \in Threads |-> IF t = KernelThread THEN "k_heap" ELSE "idle"]

\* C17: if allocate_frame() returns none before all heap pages are mapped,
\* init_heap fails without initialising the heap allocator, kernel_main
\* panics, and from then on interrupts are never enabled, no task is added
\* and no context switch is performed.
C17_ExhaustionPanics == [](Exhausted => []PanickedAtBoot)

\* C17 witness: the frames ran out after some heap pages had been mapped.
C17_Witness ==
    /\ Exhausted
    /\ halted = "panic"
    /\ mem.pages # << >>
    /\ Len(mem.pages) < HEAP_SIZE \div PAGE_SIZE

\* The spin locks thread th holds.
HeldBy(th) == {l \in LockNames : locks[l] = th}

\* C18: at every context switch (the CPU passes from one thread of control
\* to another: the first switch of kernel_main, a timer tick, or the
\* software-raised timer vector) the thread switched out holds no spin lock.
C18_NoLockAcrossSwitch ==
    [][cpu' # cpu => HeldBy(cpu) = {}]_vars

\* C19: the timer interrupt handler never finds the scheduler lock held by
\* the thread it interrupted: it never spins forever on SCHEDULER.lock().
C19_HandlerNeverSpins == halted # "hung"

\* C20: lock ordering: no thread acquires the mailbox-map lock or the
\* semaphore's waiter-queue lock while it holds the scheduler lock.
C20_SchedulerLockLast ==
    [][\A th \in Threads : \A l \in {"mbox", "waiters"} :
          (locks[l] # th /\ locks'[l] = th) => locks["sched"] # th]_vars

\* C21: a task's saved context is overwritten only by a context save made
\* while that task itself is the thread executing on the CPU; so every
\* context slot holds its own task's registers (its entry point on its own
\* stack until its first save), also when a tick arrives between
\* kernel_main's enable() and its context_switch.
C21_ContextSavedByOwner ==
    [][\A i \in 1 .. Len(tasks) :
          (i <= Len(tasks') /\ tasks'[i].context # tasks[i].context)
              => cpu = tasks[i].id]_vars

\* C22: at the moment receive() sets its calling task to Blocked, that
\* task's mailbox is empty: no send() appends a message between receive's
\* empty check and the transition to Blocked.
C22_BlockedOnlyWhenEmpty ==
    [][\A t \in TaskIds :
          (pc[t] = "r_block" /\ pc'[t] = "r_sdrop")
              => mailboxes[loc[t].my_id] = << >>]_vars

\* C23: up() changes a task's state only from Blocked to Ready: the waiter
\* it pops is Blocked when up() writes its state, and up() never writes the
\* state of a task that is Running or Ready (a write of Ready over Ready
\* changes nothing and is allowed here).
C23_UpWakesOnlyBlocked ==
    [][\A t \in TaskIds :
          (pc[t] = "u_wake" /\ pc'[t] = "u_sdrop" /\ tasks' # tasks)
              => StateOf(loc[t].task_id) = "Blocked"]_vars

\* A run of the timer handler: a hardware tick, or the software-raised timer
\* vector of receive() and yield_now().
HandlerRuns ==
    \/ Tick
    \/ \E t \in TaskIds : RecvYield(t)
    \/ \E t \in TaskIds : DownYield(t)

\* C24: when schedule() returns none, the scheduler's current index and
\* every task's state are unchanged, and the timer handler performs no
\* context switch, releases the scheduler lock and returns to the
\* interrupted task.
C24_NoneChangesNothing ==
    [][(HandlerRuns /\ Free("sched") /\ schedule(tasks, current).kind = "none")
          => /\ UNCHANGED <<tasks, current, cpu, halted>>
             /\ Free("sched")']_vars

\* A task has raised the timer vector in receive(), schedule() returned none,
\* and the handler has returned to it: it executes again, still Blocked.
C24_Witness ==
    \E t \in TaskIds :
        /\ Runs(t) /\ pc[t] = "r_mlock"
        /\ current_task_id = t
        /\ StateOf(t) = "Blocked"
        /\ Free("sched")

\* Task t is inside Semaphore::down.
InDown(t) ==
    pc[t] \in {"d_load", "d_cas", "d_lock", "d_id", "d_wlock", "d_push",
               "d_slock", "d_block", "d_sdrop", "d_yield"}

\* C25: in every reachable state the semaphore counter equals initial +
\* (number of up calls that have done their fetch_add) - (number of down
\* calls that have returned) and is never below zero; down() returns only
\* by a compare-and-swap that succeeds from a value v > 0 to v - 1.
C25_CounterBalance ==
    /\ [](counter >= 0 /\ counter = SemInitial + hist.ups - hist.downs)
    /\ [][\A t \in TaskIds :
             (InDown(t) /\ ~InDown(t)')
                 => /\ pc[t] = "d_cas"
                    /\ loc[t].value > 0 /\ counter = loc[t].value
                    /\ counter' = loc[t].value - 1
                    /\ hist'.downs = hist.downs + 1]_vars

\* Two down calls have returned with an up between them, and the semaphore
\* is taken again.
C25_Witness ==
    /\ hist.downs >= 2
    /\ hist.ups >= 1
    /\ counter = 0
    /\ \A t \in TaskIds : ~InDown(t)

\* C26: in every reachable state each TaskId occurs at most once in the
\* semaphore's waiter queue, so the queue is never longer than the number
\* of tasks; also when a task in down() resumes without having been woken
\* by up().
C26_WaitersDistinct ==
    /\ \A i, j \in 1 .. Len(waiting_tasks) :
          i # j => waiting_tasks[i] # waiting_tasks[j]
    /\ Len(waiting_tasks) <= Len(tasks)

====
